---- MODULE Spec2Model ----
(***************************************************************************)
(* Model of whatsapp_excel_integrator.py: the phone normaliser             *)
(* (clean_and_standardize_phone), the display formatter                    *)
(* (format_phone_for_vcf), the row classifier (generate_vcf_content), the  *)
(* diagnostic enricher (explain_phone_defect_with_ai) and the send loop of *)
(* main with send_whatsapp_template_message.                                *)
(*                                                                           *)
(* A Python str is a sequence of one-character strings.  None is the       *)
(* one-element sequence <<"None">>, which no str equals.                   *)
(***************************************************************************)
EXTENDS Integers, Sequences, FiniteSets, TLC

VARIABLES
    pc,                    \* position of the running operation
    default_country_code,  \* st.session_state['default_cc'] (digits of the text input)
    number,                \* clean_and_standardize_phone: argument number
    ret,                   \* (numero_padronizado, motivo_falha) of the first call
    formatted_phone,       \* format_phone_for_vcf(ret.number)
    ret2,                  \* result of normalising formatted_phone again
    df,                    \* the table: a sequence of rows of cells
    index,                 \* 0-based label of the next row of df.iterrows()
    successful_contacts,   \* generate_vcf_content: list of accepted entries
    failed_contacts,       \* generate_vcf_content: list of rejected entries
    vcf_blocks,            \* generate_vcf_content: the cards, by row label
    results,               \* main: results_df, one entry per recorded row
    success_count,         \* main: success_count
    failure_count,         \* main: failure_count
    delays,                \* main: row labels at which time.sleep(0.5) ran
    posts,                 \* gateway requests issued: row label and response
    reason_arg,            \* explain_phone_defect_with_ai: argument reason
    attempt,               \* explain_phone_defect_with_ai: loop variable
    waits,                 \* explain_phone_defect_with_ai: the time.sleep arguments
    api_calls,             \* explain_phone_defect_with_ai: responses of requests.post
    text                   \* explain_phone_defect_with_ai: the returned text

normVars == <<number, ret, formatted_phone, ret2>>

tableVars == <<df, index>>

classVars == <<successful_contacts, failed_contacts, vcf_blocks>>

sendVars == <<results, success_count, failure_count, delays, posts>>

explainVars == <<reason_arg, attempt, waits, api_calls, text>>

vars == <<pc, default_country_code, normVars, tableVars, classVars, sendVars, explainVars>>

\* ------------------------------------------------------------------ strings

None == <<"None">>

Digits == {"0", "1", "2", "3", "4", "5", "6", "7", "8", "9"}

IsDigit(c) == c \in Digits

IsHyphen(c) == c = "-"

IsSpace(c) == c = " "

\* re.sub(r'\D', '', s)
re_sub_nondigit(s) == SelectSeq(s, IsDigit)

\* str.startswith
startswith(s, prefix) ==
    /\ Len(s) >= Len(prefix)
    /\ SubSeq(s, 1, Len(prefix)) = prefix

\* s[a:b] of Python (0-based, b exclusive, clipped to the string)
slice(s, a, b) ==
    LET hi == IF b > Len(s) THEN Len(s) ELSE b
    IN  IF a >= hi THEN <<>> ELSE SubSeq(s, a + 1, hi)

\* position of the first hyphen of s, 0 when there is none
RECURSIVE find_hyphen(_, _)
find_hyphen(s, i) ==
    IF i > Len(s) THEN 0
    ELSE IF IsHyphen(s[i]) THEN i
    ELSE find_hyphen(s, i + 1)

\* s.split('-')
RECURSIVE split_hyphen(_)
split_hyphen(s) ==
    LET h == find_hyphen(s, 1)
    IN  IF h = 0 THEN <<s>>
        ELSE <<SubSeq(s, 1, h - 1)>> \o split_hyphen(SubSeq(s, h + 1, Len(s)))

\* str.strip()
RECURSIVE lstrip(_)
lstrip(s) ==
    IF s # <<>> /\ IsSpace(Head(s)) THEN lstrip(Tail(s)) ELSE s

RECURSIVE rstrip(_)
rstrip(s) ==
    IF s # <<>> /\ IsSpace(s[Len(s)]) THEN rstrip(SubSeq(s, 1, Len(s) - 1)) ELSE s

strip(s) == rstrip(lstrip(s))

\* truth value of an Optional[str]: None and "" are falsy
Truthy(s) == s # None /\ s # <<>>

\* ------------------------------------------------- clean_and_standardize_phone

\* CC falling back to "55" for every configuration shorter than 4 digits
CC_fixed_below_4(cfg) == IF Len(cfg) >= 4 THEN slice(cfg, 0, 2) ELSE <<"5", "5">>

\* CC = default_country_code[:2] if len(default_country_code) >= 2 else "55"
CC(cfg) == IF Len(cfg) >= 2 THEN slice(cfg, 0, 2) ELSE <<"5", "5">>

\* DD = default_country_code[2:4] if len(default_country_code) >= 4 else "31"
DD(cfg) == IF Len(cfg) >= 4 THEN slice(cfg, 2, 4) ELSE <<"3", "1">>

Accept(n) == [number |-> n, reason |-> "None", detail |-> 0]

Reject(why, n) == [number |-> None, reason |-> why, detail |-> n]

\* the hyphen pre-validation without the 4-digit test on the second part
hyphen_check_count_only(raw_number_str) ==
    IF find_hyphen(raw_number_str, 1) # 0
    THEN LET parts == split_hyphen(raw_number_str)
         IN  IF Len(parts) # 2
             THEN Reject("HyphenCount", Len(parts) - 1)
             ELSE Accept(raw_number_str)
    ELSE Accept(raw_number_str)

\* the hyphen pre-validation; "ok" when the number goes on to length dispatch
hyphen_check(raw_number_str) ==
    IF find_hyphen(raw_number_str, 1) # 0
    THEN LET parts == split_hyphen(raw_number_str)
         IN  IF Len(parts) # 2
             THEN Reject("HyphenCount", Len(parts) - 1)
             ELSE LET part2_clean == re_sub_nondigit(parts[2])
                  IN  IF Len(part2_clean) # 4
                      THEN Reject("HyphenPart2", Len(part2_clean))
                      ELSE Accept(raw_number_str)
    ELSE Accept(raw_number_str)

\* has_cc with the country-code test dropped
has_cc_always(cleaned_number, cc) == TRUE

has_cc(cleaned_number, cc) == startswith(cleaned_number, cc)

\* the 12-digit rule with the '9' put right after the country code
add_ninth_digit_12_after_cc(cleaned_number) ==
    slice(cleaned_number, 0, 2) \o <<"9">> \o slice(cleaned_number, 2, 12)

\* standardized_number = cleaned_number[:4] + '9' + cleaned_number[4:]
add_ninth_digit_12(cleaned_number) ==
    slice(cleaned_number, 0, 4) \o <<"9">> \o slice(cleaned_number, 4, 12)

\* the 10-digit rule adding the country code but no '9'
add_ninth_digit_10_without_marker(cleaned_number, cc) ==
    cc \o cleaned_number

\* standardized_number = CC + cleaned_number[:2] + '9' + cleaned_number[2:]
add_ninth_digit_10(cleaned_number, cc) ==
    cc \o slice(cleaned_number, 0, 2) \o <<"9">> \o slice(cleaned_number, 2, 10)

\* the 11-digit rule accepting only numbers that start with the default DDD
complete_11_only_default_ddd(cleaned_number, cc, dd) ==
    IF startswith(cleaned_number, dd)
    THEN Accept(cc \o cleaned_number)
    ELSE Reject("InvalidSize", Len(cleaned_number))

\* the 11-digit rule: both branches of "if cleaned_number.startswith(DD)"
\* return CC + cleaned_number
complete_11(cleaned_number, cc, dd) ==
    IF startswith(cleaned_number, dd)
    THEN Accept(cc \o cleaned_number)
    ELSE Accept(cc \o cleaned_number)

\* the length dispatch on the cleaned digits
standardize(cleaned_number, cc, dd) ==
    LET phone_length == Len(cleaned_number)
        hascc == has_cc(cleaned_number, cc)
    IN  IF phone_length = 12 /\ hascc
        THEN Accept(add_ninth_digit_12(cleaned_number))
        ELSE IF phone_length = 10
        THEN Accept(add_ninth_digit_10(cleaned_number, cc))
        ELSE IF phone_length \in {8, 9}
        THEN Accept(cc \o dd \o cleaned_number)
        ELSE IF phone_length = 11
        THEN complete_11(cleaned_number, cc, dd)
        ELSE IF phone_length = 13 /\ hascc
        THEN Accept(cleaned_number)
        ELSE IF phone_length < 8
        THEN Reject("TooShort", phone_length)
        ELSE IF phone_length > 13 /\ ~hascc
        THEN Reject("TooLongNoCC", phone_length)
        ELSE Reject("InvalidSize", phone_length)

\* clean_and_standardize_phone without its "if not number" guard
clean_without_empty_guard(num, cfg) ==
    LET pre == hyphen_check(num)
    IN  IF pre.number = None
        THEN pre
        ELSE standardize(re_sub_nondigit(num), CC(cfg), DD(cfg))

clean_and_standardize_phone(num, cfg) ==
    IF num = <<>>
    THEN Reject("EmptyInput", 0)
    ELSE LET pre == hyphen_check(num)
         IN  IF pre.number = None
             THEN pre
             ELSE standardize(re_sub_nondigit(num), CC(cfg), DD(cfg))

\* ----------------------------------------------------------- format_phone_for_vcf

format_phone_for_vcf(e164_number) ==
    IF e164_number = <<>> \/ Len(e164_number) # 13
    THEN e164_number
    ELSE <<"+">> \o slice(e164_number, 0, 2) \o <<" ", "(">>
         \o slice(e164_number, 2, 4) \o <<")", " ">>
         \o slice(e164_number, 4, 9) \o <<"-">> \o slice(e164_number, 9, 13)

\* ------------------------------------------------------------------ inputs

\* longest run of extra digits appended to a raw phone
MaxPad == 1

\* text typed in "Codigo de Pais e DDD Padrao", before main strips the non-digits
ConfigInputs ==
    { <<>>, <<"5">>, <<"5", "5">>, <<"1", "1">>, <<"5", "5", "3">>,
      <<"5", "5", "3", "1">>, <<"1", "1", "2", "1">>, <<"5", "5", " ", "3", "1">> }

\* st.session_state['default_cc'] = re.sub(r'\D', '', default_cc_ddd)
DefaultCcValues == { re_sub_nondigit(c) : c \in ConfigInputs }

Leads == { <<>>, <<"+">>, <<" ">> }

CountryParts == { <<>>, <<"5", "5">>, <<"1", "1">> }

AreaParts == { <<>>, <<"3", "1">>, <<"(", "3", "1", ")", " ">>, <<"2">> }

MarkerParts == { <<>>, <<"9">>, <<"8">> }

FirstBlocks == { <<>>, <<"8", "7", "6", "5">>, <<"8", "7", "6">>, <<"8", "7", "-", "6", "5">> }

Separators == { <<>>, <<"-">>, <<" ">> }

LastBlocks == { <<>>, <<"4", "3", "2", "1">>, <<"4", "3", "2">> }

Pad(k) == [i \in 1..k |-> "0"]

\* raw phone strings as typed in a spreadsheet: 0 to 13 + MaxPad digits, with
\* and without country code, area code and marker, with 0, 1 or 2 hyphens
RawNumbers ==
    { lead \o c \o a \o m \o f \o s \o l \o Pad(k) :
        lead \in Leads, c \in CountryParts, a \in AreaParts, m \in MarkerParts,
        f \in FirstBlocks, s \in Separators, l \in LastBlocks, k \in 0..MaxPad }

NoResult == [number |-> None, reason |-> "None", detail |-> 0]

\* values of the variables an operation does not use
IdleNorm ==
    /\ number = <<>>
    /\ ret = NoResult
    /\ formatted_phone = None
    /\ ret2 = NoResult

IdleTable ==
    /\ df = <<>>
    /\ index = 0

IdleClass ==
    /\ successful_contacts = <<>>
    /\ failed_contacts = <<>>
    /\ vcf_blocks = <<>>

IdleSend ==
    /\ results = <<>>
    /\ success_count = 0
    /\ failure_count = 0
    /\ delays = <<>>
    /\ posts = <<>>

IdleExplain ==
    /\ reason_arg = "None"
    /\ attempt = 0
    /\ waits = <<>>
    /\ api_calls = <<>>
    /\ text = [kind |-> "None", reason |-> "None"]

\* ------------------------------------------- the normaliser on one raw phone

InitNorm ==
    /\ pc = "input"
    /\ default_country_code \in DefaultCcValues
    /\ number \in RawNumbers
    /\ ret = NoResult
    /\ formatted_phone = None
    /\ ret2 = NoResult
    /\ IdleTable /\ IdleClass /\ IdleSend /\ IdleExplain

\* cleaned_phone_e164, failure_reason = clean_and_standardize_phone(...)
Normalize ==
    /\ pc = "input"
    /\ ret' = clean_and_standardize_phone(number, default_country_code)
    /\ pc' = "normalized"
    /\ UNCHANGED <<default_country_code, number, formatted_phone, ret2,
                   tableVars, classVars, sendVars, explainVars>>

\* formatted_phone = format_phone_for_vcf(cleaned_phone_e164)
Format ==
    /\ pc = "normalized"
    /\ Truthy(ret.number)
    /\ formatted_phone' = format_phone_for_vcf(ret.number)
    /\ pc' = "formatted"
    /\ UNCHANGED <<default_country_code, number, ret, ret2,
                   tableVars, classVars, sendVars, explainVars>>

\* the display string given back to clean_and_standardize_phone
Renormalize ==
    /\ pc = "formatted"
    /\ ret2' = clean_and_standardize_phone(formatted_phone, default_country_code)
    /\ pc' = "renormalized"
    /\ UNCHANGED <<default_country_code, number, ret, formatted_phone,
                   tableVars, classVars, sendVars, explainVars>>

NextNorm == Normalize \/ Format \/ Renormalize

SpecNorm == InitNorm /\ [][NextNorm]_vars

\* --------------------------------------------- properties of the normaliser

CountHyphens(s) == Len(SelectSeq(s, IsHyphen))

AfterLastHyphen(s) ==
    LET p == CHOOSE i \in 1..Len(s) : IsHyphen(s[i]) /\ \A j \in (i + 1)..Len(s) : ~IsHyphen(s[j])
    IN  SubSeq(s, p + 1, Len(s))

\* the separator pre-check of the specification: no hyphen, or exactly one
\* hyphen followed by text that reduces to exactly 4 digits
PassesSeparatorCheck(s) ==
    \/ CountHyphens(s) = 0
    \/ /\ CountHyphens(s) = 1
       /\ Len(re_sub_nondigit(AfterLastHyphen(s))) = 4

IsCanonical(c) ==
    /\ c # None
    /\ Len(c) = 13
    /\ \A i \in 1..Len(c) : IsDigit(c[i])
    /\ c[5] = "9"

\* C1: whenever clean_and_standardize_phone accepts, the number it returns is
\* a digit-only string of exactly 13 digits whose 5th digit is '9'.
C1_AcceptedIsCanonical ==
    (pc # "input" /\ ret.number # None) => IsCanonical(ret.number)

\* C8: round trip: for every accepted raw input with canonical value c,
\* normalising format_phone_for_vcf(c) again is accepted and yields exactly c.
C8_RoundTrip ==
    pc = "renormalized" => ret2.number = ret.number

\* C9: an input of exactly 13 digits that passes the separator pre-check is
\* accepted if and only if its digits start with the configured country code,
\* and the number returned is then the digit string unchanged.
C9_ThirteenDigits ==
    (/\ pc # "input"
     /\ PassesSeparatorCheck(number)
     /\ Len(re_sub_nondigit(number)) = 13)
    => /\ ret.number # None <=> startswith(re_sub_nondigit(number), CC(default_country_code))
       /\ ret.number # None => ret.number = re_sub_nondigit(number)
       /\ IsCanonical(re_sub_nondigit(number))
            /\ startswith(re_sub_nondigit(number), CC(default_country_code))
          => ret.number = re_sub_nondigit(number)

\* a 13-digit number written with one hyphen has been accepted unchanged
C9_Witness ==
    /\ pc = "normalized"
    /\ CountHyphens(number) = 1
    /\ Len(re_sub_nondigit(number)) = 13
    /\ ret.number = re_sub_nondigit(number)

\* C10 as stated: every empty or whitespace-only raw input is rejected with the
\* EmptyInput reason, never with a length-based or separator-based one.
C10_BlankIsEmptyInput ==
    (pc # "input" /\ strip(number) = <<>>) => ret.reason = "EmptyInput"

\* C10 amended: the empty raw input is rejected with EmptyInput before any
\* other rule, and only it; a non-empty whitespace-only input is rejected by
\* the length rule as too short, with 0 digits observed.
C10_EmptyIsEmptyInput ==
    pc # "input" =>
        /\ number = <<>> => (ret.number = None /\ ret.reason = "EmptyInput")
        /\ ret.reason = "EmptyInput" => number = <<>>
        /\ (number # <<>> /\ strip(number) = <<>>)
           => (ret.number = None /\ ret.reason = "TooShort" /\ ret.detail = 0)

\* the empty string has been given to the normaliser and rejected as empty
C10_Witness ==
    /\ pc = "normalized"
    /\ number = <<>>
    /\ ret.reason = "EmptyInput"

\* the digits of the raw phone under test
digits_of_number == re_sub_nondigit(number)

\* the reasons the length dispatch gives to lengths it does not support
LengthReasons == {"TooShort", "TooLongNoCC", "InvalidSize"}

\* the two reasons of the hyphen pre-validation
SeparatorReasons == {"HyphenCount", "HyphenPart2"}

\* C13 as stated: a 12-digit input that passes the separator pre-check is
\* accepted as digits[0:4] + '9' + digits[4:12] when it starts with the
\* configured country code, and is otherwise rejected with a reason of its
\* own, distinct from the reason given to unsupported lengths.
C13_TwelveDigitsOwnReason ==
    (/\ pc # "input"
     /\ PassesSeparatorCheck(number)
     /\ Len(digits_of_number) = 12)
    => IF startswith(digits_of_number, CC(default_country_code))
       THEN ret.number = SubSeq(digits_of_number, 1, 4) \o <<"9">>
                         \o SubSeq(digits_of_number, 5, 12)
       ELSE ret.number = None /\ ret.reason \notin LengthReasons

\* C13 amended: a 12-digit input that passes the separator pre-check is
\* accepted as digits[0:4] + '9' + digits[4:12] when it starts with the
\* configured country code, and is otherwise rejected with the generic
\* invalid-size reason, observed length 12, the same reason the unsupported
\* lengths receive.
C13_TwelveDigitsInvalidSize ==
    (/\ pc # "input"
     /\ PassesSeparatorCheck(number)
     /\ Len(digits_of_number) = 12)
    => IF startswith(digits_of_number, CC(default_country_code))
       THEN /\ ret.reason = "None"
            /\ ret.number = SubSeq(digits_of_number, 1, 4) \o <<"9">>
                            \o SubSeq(digits_of_number, 5, 12)
       ELSE ret = Reject("InvalidSize", 12)

\* 12 digits that do not start with the country code have been rejected with
\* the invalid-size reason
C13_Witness ==
    /\ pc = "normalized"
    /\ Len(digits_of_number) = 12
    /\ ~startswith(digits_of_number, CC(default_country_code))
    /\ ret.reason = "InvalidSize"

\* C14: every input of exactly 10 digits that passes the separator pre-check
\* is accepted, and the number returned is the configured country code, then
\* digits[0:2], then '9', then digits[2:10]; such an input is never rejected
\* by a length rule.
C14_TenDigits ==
    (/\ pc # "input"
     /\ PassesSeparatorCheck(number)
     /\ Len(digits_of_number) = 10)
    => /\ ret.reason = "None"
       /\ ret.number = CC(default_country_code) \o SubSeq(digits_of_number, 1, 2)
                       \o <<"9">> \o SubSeq(digits_of_number, 3, 10)

\* a 10-digit number written with one hyphen has been accepted with the
\* country code and the '9' added
C14_Witness ==
    /\ pc = "normalized"
    /\ CountHyphens(number) = 1
    /\ Len(digits_of_number) = 10
    /\ Len(ret.number) = 13
    /\ ret.number[5] = "9"

\* C15: every input of 8, 9 or 11 digits that passes the separator pre-check
\* is accepted; the number returned is country code + default area code +
\* digits for 8 or 9 digits and country code + digits for 11 digits, whether
\* or not the 11 digits begin with the default area code.
C15_PrefixCompletion ==
    (pc # "input" /\ PassesSeparatorCheck(number))
    => /\ Len(digits_of_number) \in {8, 9}
          => ret = Accept(CC(default_country_code) \o DD(default_country_code)
                          \o digits_of_number)
       /\ Len(digits_of_number) = 11
          => ret = Accept(CC(default_country_code) \o digits_of_number)

\* 11 digits that do not begin with the default area code have been accepted
\* with only the country code prepended
C15_Witness ==
    /\ pc = "normalized"
    /\ Len(digits_of_number) = 11
    /\ ~startswith(digits_of_number, DD(default_country_code))
    /\ ret.number = CC(default_country_code) \o digits_of_number

\* C16: a non-empty raw string containing a hyphen is rejected by the
\* separator pre-check unless it has exactly one hyphen and the text after it
\* reduces to exactly 4 digits, whatever its digit count; a string with
\* exactly one hyphen followed by 4 digits goes on to length dispatch and gets
\* the result of its digits.
C16_SeparatorBeforeLength ==
    (pc # "input" /\ number # <<>> /\ CountHyphens(number) >= 1)
    => IF PassesSeparatorCheck(number)
       THEN /\ ret.reason \notin SeparatorReasons
            /\ ret = standardize(digits_of_number, CC(default_country_code),
                                 DD(default_country_code))
       ELSE ret.number = None /\ ret.reason \in SeparatorReasons

\* a raw string whose digit count the length dispatch accepts has been
\* rejected because its one hyphen is not followed by 4 digits
C16_Witness ==
    /\ pc = "normalized"
    /\ CountHyphens(number) = 1
    /\ Len(digits_of_number) \in 8..11
    /\ ret.number = None
    /\ ret.reason = "HyphenPart2"

\* the two codes a configuration stands for: its first two digits when it has
\* two, else "55"; its third and fourth digits when it has four, else "31"
ConfiguredCountry(cfg) == IF Len(cfg) >= 2 THEN SubSeq(cfg, 1, 2) ELSE <<"5", "5">>

ConfiguredArea(cfg) == IF Len(cfg) >= 4 THEN SubSeq(cfg, 3, 4) ELSE <<"3", "1">>

IsDigitString(s) == s # <<>> /\ \A i \in 1..Len(s) : IsDigit(s[i])

\* C17 as stated: with a configuration shorter than 4 digits the normaliser
\* uses country code "55" and area code "31", and for every configuration both
\* derived codes are non-empty digit strings.
C17_FixedDefaultsBelowFour ==
    /\ (/\ pc # "input"
        /\ Len(default_country_code) < 4
        /\ PassesSeparatorCheck(number)
        /\ Len(digits_of_number) \in {8, 9})
       => ret.number = <<"5", "5", "3", "1">> \o digits_of_number
    /\ IsDigitString(CC(default_country_code))
    /\ IsDigitString(DD(default_country_code))

\* C17 amended: the area code falls back to "31" when the configuration has
\* fewer than 4 digits, the country code falls back to "55" only when the
\* configuration has fewer than 2 digits and is otherwise its first two
\* digits; for every configuration both derived codes are non-empty digit
\* strings.
C17_DerivedCodes ==
    /\ (/\ pc # "input"
        /\ PassesSeparatorCheck(number)
        /\ Len(digits_of_number) \in {8, 9})
       => ret.number = ConfiguredCountry(default_country_code)
                       \o ConfiguredArea(default_country_code) \o digits_of_number
    /\ IsDigitString(CC(default_country_code))
    /\ IsDigitString(DD(default_country_code))

\* under the 2-digit configuration "11" an 8-digit number has been completed
\* with country code "11" and the fallback area code "31"
C17_Witness ==
    /\ pc = "normalized"
    /\ default_country_code = <<"1", "1">>
    /\ Len(digits_of_number) = 8
    /\ ret.number = <<"1", "1", "3", "1">> \o digits_of_number

\* ------------------------------------------- explain_phone_defect_with_ai

max_retries == 3

\* what the text endpoint can answer to one requests.post
AIResponses ==
    { "ok_text",       \* 2xx, JSON with candidates[0].content.parts[0].text
      "ok_defaults",   \* 2xx, JSON object without those keys: the .get defaults
      "ok_bad_shape",  \* 2xx, JSON of another shape ("candidates": [], a list)
      "ok_not_json",   \* 2xx, body that is no JSON
      "http_error",    \* 4xx / 5xx: raise_for_status raises HTTPError
      "transport" }    \* no response: ConnectionError, Timeout

\* how the try body of one attempt ends.  response.json() on a body that is
\* no JSON raises requests' JSONDecodeError, a RequestException from requests
\* 2.27 on and a plain ValueError before: either handler may take it.
attempt_outcomes(resp) ==
    CASE resp = "ok_text" -> {"text"}
      [] resp = "ok_defaults" -> {"default_text"}
      [] resp = "ok_bad_shape" -> {"exception"}
      [] resp = "ok_not_json" -> {"request_exception", "exception"}
      [] resp = "http_error" -> {"request_exception"}
      [] resp = "transport" -> {"request_exception"}

AttemptOutcomes == UNION { attempt_outcomes(r) : r \in AIResponses }

NoText == [kind |-> "None", reason |-> "None"]

Returns(k, why) == [does |-> "return", text |-> [kind |-> k, reason |-> why], wait |-> 0]

\* one iteration of the retry loop without its "except Exception" clause
explain_attempt_no_catch_all(att, outcome, reason) ==
    CASE outcome = "text" -> Returns("AI_TEXT", "None")
      [] outcome = "default_text" -> Returns("AI_DEFAULT_TEXT", "None")
      [] outcome = "request_exception" ->
            IF att < max_retries - 1
            THEN [does |-> "retry", text |-> NoText, wait |-> 2 ^ att]
            ELSE Returns("LOCAL_FALLBACK", reason)
      [] outcome = "exception" -> [does |-> "raise", text |-> NoText, wait |-> 0]

\* one iteration of the retry loop: return a text, or sleep and go on
explain_attempt(att, outcome, reason) ==
    CASE outcome = "text" -> Returns("AI_TEXT", "None")
      [] outcome = "default_text" -> Returns("AI_DEFAULT_TEXT", "None")
      [] outcome = "request_exception" ->
            IF att < max_retries - 1
            THEN [does |-> "retry", text |-> NoText, wait |-> 2 ^ att]
            ELSE Returns("LOCAL_FALLBACK", reason)
      [] outcome = "exception" -> Returns("UNKNOWN_PROCESSING", "None")

\* the whole call, given how each attempt ends; "raise" when it raises
RECURSIVE explain_run(_, _, _)
explain_run(reason, outcomes, att) ==
    IF att >= max_retries
    THEN [kind |-> "UNKNOWN", reason |-> "None"]
    ELSE LET step == explain_attempt(att, outcomes[att + 1], reason)
         IN  IF step.does = "return" THEN step.text
             ELSE IF step.does = "raise" THEN [kind |-> "raise", reason |-> "None"]
             ELSE explain_run(reason, outcomes, att + 1)

explain_phone_defect_with_ai(reason, outcomes) == explain_run(reason, outcomes, 0)

\* the failure_reason values generate_vcf_content passes
ReasonArgs ==
    { "None", "EmptyInput", "HyphenCount", "HyphenPart2", "TooShort",
      "TooLongNoCC", "InvalidSize" }

InitExplain ==
    /\ pc = "try"
    /\ default_country_code = <<>>
    /\ reason_arg \in ReasonArgs
    /\ attempt = 0
    /\ waits = <<>>
    /\ api_calls = <<>>
    /\ text = NoText
    /\ IdleNorm /\ IdleTable /\ IdleClass /\ IdleSend

\* one pass through "for attempt in range(max_retries)"
ExplainAttempt ==
    /\ pc = "try"
    /\ IF attempt >= max_retries
       THEN /\ text' = [kind |-> "UNKNOWN", reason |-> "None"]
            /\ pc' = "returned"
            /\ UNCHANGED <<attempt, waits, api_calls>>
       ELSE \E resp \in AIResponses : \E outcome \in attempt_outcomes(resp) :
              LET step == explain_attempt(attempt, outcome, reason_arg)
              IN  /\ api_calls' = Append(api_calls, [resp |-> resp, outcome |-> outcome])
                  /\ IF step.does = "retry"
                     THEN /\ waits' = Append(waits, step.wait)
                          /\ attempt' = attempt + 1
                          /\ UNCHANGED <<pc, text>>
                     ELSE /\ pc' = IF step.does = "raise" THEN "raised" ELSE "returned"
                          /\ text' = step.text
                          /\ UNCHANGED <<attempt, waits>>
    /\ UNCHANGED <<default_country_code, reason_arg, normVars, tableVars, classVars, sendVars>>

NextExplain == ExplainAttempt

SpecExplain == InitExplain /\ [][NextExplain]_vars

LastCall == api_calls[Len(api_calls)]

\* every wait is 2^attempt of the failed attempt it follows, one per retry
BackoffWaits == waits = [i \in 1..attempt |-> 2 ^ (i - 1)]

\* C7 as stated: the call returns a text and never raises, makes at most
\* max_retries calls with a wait of 2^attempt between a failed attempt and the
\* next, and returns the local fallback sentence whenever all attempts failed
\* or the response could not be parsed.
C7_FallbackOnEveryFailure ==
    /\ pc \in {"try", "returned"}
    /\ Len(api_calls) <= max_retries
    /\ BackoffWaits
    /\ (pc = "returned" /\ LastCall.resp \notin {"ok_text", "ok_defaults"})
       => text.kind = "LOCAL_FALLBACK"

\* C7 amended: the call never raises and ends within max_retries calls by
\* returning a text; it waits 2^attempt between a failed request and the next
\* one; after max_retries failed requests it returns the fallback sentence
\* built from reason, and when processing a response raises any other
\* exception it returns at once the fixed "unknown error" sentence instead.
C7_ReturnsLocalText ==
    /\ pc \in {"try", "returned"}
    /\ Len(api_calls) <= max_retries
    /\ BackoffWaits
    /\ pc = "try" => (attempt < max_retries /\ Len(api_calls) = attempt /\ text = NoText)
    /\ pc = "returned" =>
          /\ text.kind \in {"AI_TEXT", "AI_DEFAULT_TEXT", "LOCAL_FALLBACK", "UNKNOWN_PROCESSING"}
          /\ Len(api_calls) = attempt + 1
          /\ \A i \in 1..attempt : api_calls[i].outcome = "request_exception"
          /\ LastCall.outcome = "request_exception"
             => (text = [kind |-> "LOCAL_FALLBACK", reason |-> reason_arg]
                 /\ Len(api_calls) = max_retries)
          /\ LastCall.outcome = "exception"
             => text = [kind |-> "UNKNOWN_PROCESSING", reason |-> "None"]
          /\ LastCall.outcome \in {"text", "default_text"}
             => text.kind \in {"AI_TEXT", "AI_DEFAULT_TEXT"}

\* the third attempt has failed after waits of 1 and 2, and the fallback
\* sentence has been returned
C7_Witness ==
    /\ pc = "returned"
    /\ Len(api_calls) = max_retries
    /\ waits = <<1, 2>>
    /\ text.kind = "LOCAL_FALLBACK"

\* ------------------------------------------------------------ the table

\* most rows of a table
MaxRows == 2

\* a cell of the DataFrame: NaN (an empty cell, as pandas reads it) or a str
NaN == [nan |-> TRUE, v |-> <<>>]

Str(s) == [nan |-> FALSE, v |-> s]

\* str(cell): the float NaN prints as "nan"
py_str(cell) == IF cell.nan THEN <<"n", "a", "n">> ELSE cell.v

NameCells == { NaN, Str(<<" ">>), Str(<<"A", "n", "a">>) }

PhoneCells ==
    { NaN, Str(<<" ">>),
      Str(<<"3", "1", "8", "7", "6", "5", "4", "3", "2", "1">>),
      Str(<<"1", "2", "3", "4", "-", "5", "6", "7">>) }

\* a row: the responsible-name and the phone column (the student and class
\* columns are copied to the reports and decide nothing)
Rows == [responsible : NameCells, phone : PhoneCells]

\* main reads df.iloc[0] before either path runs: the table has a row
Tables == UNION { [1..n -> Rows] : n \in 1..MaxRows }

\* ------------------------------------------------- generate_vcf_content

\* if responsible_name and cleaned_phone_e164
is_accepted(responsible_name, cleaned_phone_e164) ==
    responsible_name # <<>> /\ Truthy(cleaned_phone_e164)

\* failure_reason or "Nome ou Numero Limpo Invalido."
reason_or_default(failure_reason) ==
    IF failure_reason # "None" THEN failure_reason ELSE "NomeOuNumeroInvalido"

\* the loop body with "elif failure_reason:" in place of "else:"
classify_row_dropping_nameless(row, idx, cfg, ai_explanation) ==
    LET responsible_name == strip(py_str(row.responsible))
        original_phone == strip(py_str(row.phone))
        cleaned == clean_and_standardize_phone(original_phone, cfg)
    IN  IF is_accepted(responsible_name, cleaned.number)
        THEN [to |-> "successful_contacts",
              entry |-> [Indice_Linha_Original |-> idx + 1,
                         responsible_name |-> responsible_name,
                         original_phone |-> original_phone,
                         e164 |-> cleaned.number,
                         vcf |-> format_phone_for_vcf(cleaned.number)]]
        ELSE IF cleaned.reason # "None"
        THEN [to |-> "failed_contacts",
              entry |-> [Indice_Linha_Original |-> idx + 1,
                         responsible_name |-> responsible_name,
                         Telefone |-> original_phone,
                         Motivo_da_Falha |-> reason_or_default(cleaned.reason),
                         Explicacao_AI |-> ai_explanation,
                         row |-> row]]
        ELSE [to |-> "neither", entry |-> [Indice_Linha_Original |-> idx + 1]]

\* the loop body: which list the row goes to, and the entry appended, given
\* what explain_phone_defect_with_ai returns for the row.  The rejected entry
\* is failed_entry | row.to_dict(): the row's own columns are kept in it
\* (columns named like a report key are not modelled).
classify_row(row, idx, cfg, ai_explanation) ==
    LET responsible_name == strip(py_str(row.responsible))
        original_phone == strip(py_str(row.phone))
        cleaned == clean_and_standardize_phone(original_phone, cfg)
    IN  IF is_accepted(responsible_name, cleaned.number)
        THEN [to |-> "successful_contacts",
              entry |-> [Indice_Linha_Original |-> idx + 1,
                         responsible_name |-> responsible_name,
                         original_phone |-> original_phone,
                         e164 |-> cleaned.number,
                         vcf |-> format_phone_for_vcf(cleaned.number)]]
        ELSE [to |-> "failed_contacts",
              entry |-> [Indice_Linha_Original |-> idx + 1,
                         responsible_name |-> responsible_name,
                         Telefone |-> original_phone,
                         Motivo_da_Falha |-> reason_or_default(cleaned.reason),
                         Explicacao_AI |-> ai_explanation,
                         row |-> row]]

\* a report list that puts each new entry in front
list_append_in_front(contacts, entry) == <<entry>> \o contacts

\* successful_contacts.append(...), failed_contacts.append(...)
list_append(contacts, entry) == Append(contacts, entry)

\* what explain_phone_defect_with_ai(original_phone, failure_reason) can give
\* back, over every way its attempts can end
explanations(failure_reason) ==
    { explain_phone_defect_with_ai(failure_reason, outcomes) :
        outcomes \in [1..max_retries -> AttemptOutcomes] }

\* the default of the text input, and another country and area
TableConfigs ==
    { re_sub_nondigit(c) : c \in { <<"5", "5", "3", "1">>, <<"1", "1", "2", "1">> } }

InitClassify ==
    /\ pc = "classify"
    /\ default_country_code \in TableConfigs
    /\ df \in Tables
    /\ index = 0
    /\ successful_contacts = <<>>
    /\ failed_contacts = <<>>
    /\ vcf_blocks = <<>>
    /\ IdleNorm /\ IdleSend /\ IdleExplain

\* one iteration of "for index, row in df.iterrows()"; an exception out of
\* the diagnostic call would leave the loop
ClassifyRow ==
    /\ pc = "classify"
    /\ index < Len(df)
    /\ LET row == df[index + 1]
           failure_reason ==
               clean_and_standardize_phone(strip(py_str(row.phone)), default_country_code).reason
       IN  \E ai_explanation \in explanations(failure_reason) :
             LET c == classify_row(row, index, default_country_code, ai_explanation)
             IN  IF c.to = "failed_contacts" /\ ai_explanation.kind = "raise"
                 THEN /\ pc' = "raised"
                      /\ UNCHANGED <<index, classVars>>
                 ELSE /\ CASE c.to = "successful_contacts" ->
                                /\ successful_contacts' = list_append(successful_contacts, c.entry)
                                /\ vcf_blocks' = Append(vcf_blocks, index)
                                /\ UNCHANGED failed_contacts
                           [] c.to = "failed_contacts" ->
                                /\ failed_contacts' = list_append(failed_contacts, c.entry)
                                /\ UNCHANGED <<successful_contacts, vcf_blocks>>
                           [] OTHER -> UNCHANGED classVars
                      /\ index' = index + 1
                      /\ UNCHANGED pc
    /\ UNCHANGED <<default_country_code, df, normVars, sendVars, explainVars>>

\* return '\n'.join(vcf_blocks)
ClassifyReturn ==
    /\ pc = "classify"
    /\ index = Len(df)
    /\ pc' = "classified"
    /\ UNCHANGED <<default_country_code, normVars, tableVars, classVars, sendVars, explainVars>>

NextClassify == ClassifyRow \/ ClassifyReturn

SpecClassify == InitClassify /\ [][NextClassify]_vars

\* positions in a report list of the entries of the row at position k (1-based)
EntriesOf(list, k) == { j \in 1..Len(list) : list[j].Indice_Linha_Original = k }

\* a cell the user left blank: empty (NaN) or only whitespace
CellBlank(cell) == cell.nan \/ strip(cell.v) = <<>>

\* C2: whatever the normaliser and the diagnostic call give, the loop is never
\* left early and every row processed is in exactly one of the two lists, so
\* the two lengths add up to the number of rows processed, and to the number
\* of input rows once generate_vcf_content has returned.
C2_NoRowLostOrDuplicated ==
    /\ pc \in {"classify", "classified"}
    /\  /\ Len(successful_contacts) + Len(failed_contacts) = index
        /\ \A k \in 1..index :
              Cardinality(EntriesOf(successful_contacts, k))
                + Cardinality(EntriesOf(failed_contacts, k)) = 1
        /\ \A k \in (index + 1)..Len(df) :
              EntriesOf(successful_contacts, k) \cup EntriesOf(failed_contacts, k) = {}
        /\ pc = "classified" => index = Len(df)

\* a table of MaxRows rows has been classified, with one row in each list
C2_Witness ==
    /\ pc = "classified"
    /\ Len(df) >= 2
    /\ Len(successful_contacts) >= 1
    /\ Len(failed_contacts) >= 1

\* C3: a row is accepted if and only if its name field is non-blank and its
\* phone normalises; a row with a good phone and a blank name is rejected with
\* the dedicated missing-name reason, a row whose phone fails with the phone's
\* own reason.
C3_AcceptedIffNameAndPhone ==
    pc \in {"classify", "classified"} =>
        \A k \in 1..index :
            LET blank == CellBlank(df[k].responsible)
                phone == clean_and_standardize_phone(strip(py_str(df[k].phone)),
                                                       default_country_code)
            IN  /\ EntriesOf(successful_contacts, k) # {} <=> (~blank /\ phone.number # None)
                /\ (blank /\ phone.number # None)
                   => \E j \in EntriesOf(failed_contacts, k) :
                        failed_contacts[j].Motivo_da_Falha = "NomeOuNumeroInvalido"
                /\ phone.number = None
                   => \E j \in EntriesOf(failed_contacts, k) :
                        failed_contacts[j].Motivo_da_Falha = phone.reason

\* the entries of a report list stand in the order of their rows
InOriginalOrder(list) ==
    \A i, j \in 1..Len(list) :
        i < j => list[i].Indice_Linha_Original < list[j].Indice_Linha_Original

GatewayResponses ==
    { "ok_id",             \* 2xx, JSON with messages[0].id
      "ok_no_messages",    \* 2xx, JSON object without "messages"
      "ok_empty_messages", \* 2xx, JSON with "messages": []
      "ok_not_json",       \* 2xx, body that is no JSON
      "http_json_error",   \* 4xx / 5xx, JSON body with an "error" object
      "http_not_json",     \* 4xx / 5xx, body that is no JSON (a proxy's HTML page)
      "transport" }        \* no response: ConnectionError, Timeout

\* a non-2xx answer, or no answer at all
GatewayFailures == { "http_json_error", "http_not_json", "transport" }

ApiResponse(st, d) == [status |-> st, detail |-> d]

\* the values the call can give back; status "raise" when an exception leaves
\* it.  e.response.json() of the HTTPError handler raises on a body that is no
\* JSON, from inside the handler, so no except clause takes it.
\* response.json() of the try body raises requests' JSONDecodeError, taken by
\* "except RequestException" from requests 2.27 on and by nothing before.
send_whatsapp_template_message(resp) ==
    CASE resp = "ok_id" -> { ApiResponse("Success", "id") }
      [] resp = "ok_no_messages" -> { ApiResponse("Success", "no_messages") }
      [] resp = "ok_empty_messages" -> { ApiResponse("Success", "empty_messages") }
      [] resp = "ok_not_json" ->
            { ApiResponse("Failure", "Erro de Conexao"), ApiResponse("raise", "JSONDecodeError") }
      [] resp = "http_json_error" -> { ApiResponse("Failure", "HTTP Error") }
      [] resp = "http_not_json" -> { ApiResponse("raise", "JSONDecodeError") }
      [] resp = "transport" -> { ApiResponse("Failure", "Erro de Conexao") }

\* ----------------------------------------------------- the send loop of main

\* time.sleep(0.5) as if it stood before the "if not cleaned_phone" test
sleeps_before_always(cleaned_phone) == TRUE

\* time.sleep(0.5) stands in the else branch of "if not cleaned_phone"
sleeps_before(cleaned_phone) == Truthy(cleaned_phone)

\* results_df.loc[0] = current_result
record_result_at_first_label(res, idx, current_result) ==
    LET entry == [index |-> 0, Status |-> current_result.Status,
                  Detalhe |-> current_result.Detalhe]
    IN  IF res = <<>> THEN <<entry>> ELSE [res EXCEPT ![1] = entry]

\* results_df.loc[index] = current_result: the row of that label is set, and
\* added after the others when there is none
record_result(res, idx, current_result) ==
    LET entry == [index |-> idx, Status |-> current_result.Status,
                  Detalhe |-> current_result.Detalhe]
    IN  IF \E j \in 1..Len(res) : res[j].index = idx
        THEN [j \in 1..Len(res) |-> IF res[j].index = idx THEN entry ELSE res[j]]
        ELSE Append(res, entry)

\* api_response['data'].get('messages', [{}])[0].get('id', 'N/A'); "raise"
\* for the IndexError of an empty list
message_id(api_response) ==
    CASE api_response.detail = "id" -> "id"
      [] api_response.detail = "no_messages" -> "N/A"
      [] OTHER -> "raise"

\* if not cleaned_phone
phone_rejected(cleaned_phone) == ~Truthy(cleaned_phone)

\* the gateway request issued again when the first one failed
gateway_requests_retrying(sent, idx, to_number, resp) ==
    LET request == [index |-> idx, to |-> to_number, resp |-> resp]
    IN  IF resp \in GatewayFailures
        THEN Append(Append(sent, request), request)
        ELSE Append(sent, request)

\* the one requests.post of send_whatsapp_template_message, called once in
\* the loop body, added to the requests issued so far
gateway_requests(sent, idx, to_number, resp) ==
    Append(sent, [index |-> idx, to |-> to_number, resp |-> resp])

\* the counters with no "failure_count += 1" for a skipped row
tally_without_skipped(status, counts) ==
    CASE status = "Success" -> [counts EXCEPT !.success = @ + 1]
      [] status = "Failure" -> [counts EXCEPT !.failure = @ + 1]
      [] OTHER -> counts

\* success_count += 1 after a "Success" answer; failure_count += 1 for a
\* skipped row and after a "Failure" answer
tally(status, counts) ==
    CASE status = "Success" -> [counts EXCEPT !.success = @ + 1]
      [] status = "Failure" -> [counts EXCEPT !.failure = @ + 1]
      [] OTHER -> [counts EXCEPT !.failure = @ + 1]

InitSend ==
    /\ pc = "send"
    /\ default_country_code \in TableConfigs
    /\ df \in Tables
    /\ index = 0
    /\ results = <<>>
    /\ success_count = 0
    /\ failure_count = 0
    /\ delays = <<>>
    /\ posts = <<>>
    /\ IdleNorm /\ IdleClass /\ IdleExplain

\* one iteration of "for index, row in df.iterrows()" of the send path; an
\* exception leaves the loop for the "except Exception" of main
SendRow ==
    /\ pc = "send"
    /\ index < Len(df)
    /\ LET row == df[index + 1]
           original_phone == py_str(row.phone)
           cleaned == clean_and_standardize_phone(original_phone, default_country_code)
           slept == IF sleeps_before(cleaned.number) THEN Append(delays, index) ELSE delays
           counts == [success |-> success_count, failure |-> failure_count]
       IN  IF phone_rejected(cleaned.number)
           THEN /\ failure_count' = tally("Skipped", counts).failure
                /\ success_count' = tally("Skipped", counts).success
                /\ results' = record_result(results, index,
                                  [Status |-> "Falha", Detalhe |-> cleaned.reason])
                /\ delays' = slept
                /\ index' = index + 1
                /\ UNCHANGED <<pc, posts>>
           ELSE \E resp \in GatewayResponses :
                \E api_response \in send_whatsapp_template_message(resp) :
                  /\ delays' = slept
                  /\ posts' = gateway_requests(posts, index, cleaned.number, resp)
                  /\ CASE api_response.status = "raise" ->
                            /\ pc' = "aborted"
                            /\ UNCHANGED <<index, results, success_count, failure_count>>
                       [] api_response.status = "Success" ->
                            /\ success_count' = tally("Success", counts).success
                            /\ failure_count' = tally("Success", counts).failure
                            /\ IF message_id(api_response) = "raise"
                               THEN /\ pc' = "aborted"
                                    /\ UNCHANGED <<index, results>>
                               ELSE /\ results' = record_result(results, index,
                                          [Status |-> "Sucesso", Detalhe |-> message_id(api_response)])
                                    /\ index' = index + 1
                                    /\ UNCHANGED pc
                       [] api_response.status = "Failure" ->
                            /\ failure_count' = tally("Failure", counts).failure
                            /\ success_count' = tally("Failure", counts).success
                            /\ results' = record_result(results, index,
                                  [Status |-> "Falha", Detalhe |-> api_response.detail])
                            /\ index' = index + 1
                            /\ UNCHANGED pc
    /\ UNCHANGED <<default_country_code, df, normVars, classVars, explainVars>>

\* the final report after the loop
SendDone ==
    /\ pc = "send"
    /\ index = Len(df)
    /\ pc' = "done"
    /\ UNCHANGED <<default_country_code, normVars, tableVars, classVars, sendVars, explainVars>>

NextSend == SendRow \/ SendDone

SpecSend == InitSend /\ [][NextSend]_vars

\* --------------------------------------------- properties of the send loop

\* the row is an accepted record: name not blank and phone normalised
AcceptedRow(row) ==
    /\ ~CellBlank(row.responsible)
    /\ clean_and_standardize_phone(py_str(row.phone), default_country_code).number # None

PhoneRejected(row) ==
    clean_and_standardize_phone(py_str(row.phone), default_country_code).number = None

\* positions in results of the outcomes of the row with label i
OutcomesOf(i) == { j \in 1..Len(results) : results[j].index = i }

PostsOf(i) == { j \in 1..Len(posts) : posts[j].index = i }

DelaysOf(i) == { j \in 1..Len(delays) : delays[j] = i }

InRowOrder == \A j \in 1..Len(results) : \A k \in 1..Len(results) :
    j < k => results[j].index < results[k].index

\* C4 as stated: when the loop has ended, the outcome sequence has one entry
\* for each accepted record, in row order, and none for any other record.
C4_OneOutcomePerAccepted ==
    pc = "done" =>
        /\ InRowOrder
        /\ \A k \in 1..Len(df) :
              Cardinality(OutcomesOf(k - 1)) = IF AcceptedRow(df[k]) THEN 1 ELSE 0

\* C4 amended: the outcome sequence has exactly one entry for each input row
\* the loop has processed, in row order, and none for a later row: a row whose
\* phone is rejected gets a failure entry with no gateway call, a row whose
\* gateway call returns a failure gets a failure entry, also when every call
\* fails; a loop that runs to its end leaves one entry per input row.
C4_OneOutcomePerRow ==
    /\ Len(results) = index
    /\ \A j \in 1..Len(results) : results[j].index = j - 1
    /\ pc = "done" => Len(results) = Len(df)
    /\ \A j \in 1..Len(results) :
          /\ PhoneRejected(df[j]) => (results[j].Status = "Falha" /\ PostsOf(j - 1) = {})
          /\ ~PhoneRejected(df[j]) =>
                /\ Cardinality(PostsOf(j - 1)) = 1
                /\ \A p \in PostsOf(j - 1) :
                      results[j].Status = "Sucesso"
                        <=> posts[p].resp \in {"ok_id", "ok_no_messages"}

\* the loop has ended on a table of two rows whose gateway calls both failed
C4_Witness ==
    /\ pc = "done"
    /\ Len(df) = 2
    /\ Len(posts) = 2
    /\ \A j \in 1..2 : posts[j].resp \in GatewayFailures /\ results[j].Status = "Falha"

\* C5: a gateway rejection or a transport failure on one record never aborts
\* the batch: whatever the response, a failure is recorded for that record
\* and the loop goes on.
C5_FailureNeverAborts ==
    /\ pc = "aborted" => posts[Len(posts)].resp \notin GatewayFailures
    /\ \A p \in 1..Len(posts) :
          posts[p].resp \in GatewayFailures
            => \E j \in OutcomesOf(posts[p].index) : results[j].Status = "Falha"

\* C6 as stated: the delay is applied once for every record processed, a
\* skipped record included.
C6_DelayPerRecord ==
    pc \in {"send", "done"} =>
        /\ Len(delays) = index
        /\ \A i \in 0..(index - 1) : Cardinality(DelaysOf(i)) = 1

\* C6 amended: the delay is applied once before every gateway request,
\* whatever the outcome of the records before it, and only there: a record
\* skipped because its phone did not normalise incurs no delay.
C6_DelayPerRequest ==
    /\ delays = [j \in 1..Len(posts) |-> posts[j].index]
    /\ \A i \in 0..(index - 1) :
          Cardinality(DelaysOf(i)) = IF PhoneRejected(df[i + 1]) THEN 0 ELSE 1

\* a skipped record and then a dispatched one whose call failed: one delay
C6_Witness ==
    /\ pc = "done"
    /\ Len(df) = 2
    /\ PhoneRejected(df[1])
    /\ delays = <<1>>
    /\ results[2].Status = "Falha"

\* C11: the send loop never retries: for each row at most one gateway request
\* is issued, whether the request succeeds, is rejected by the gateway or
\* fails in transport, so the requests issued never outnumber the rows begun.
C11_AtMostOneRequestPerRow ==
    /\ \A p \in 1..Len(posts) : posts[p].index \in 0..(Len(df) - 1)
    /\ \A i \in 0..(Len(df) - 1) : Cardinality(PostsOf(i)) <= 1
    /\ Len(posts) <= index + (IF pc = "aborted" THEN 1 ELSE 0)

\* the loop has ended after a request that succeeded and a request that failed
\* in transport, each issued once
C11_Witness ==
    /\ pc = "done"
    /\ Len(df) = 2
    /\ Len(posts) = 2
    /\ posts[1].resp = "ok_id"
    /\ posts[2].resp = "transport"
    /\ posts[1].index = 0
    /\ posts[2].index = 1

\* C18: a gateway request is issued for a row only if the row is accepted,
\* its name not blank and its phone normalised; no request is ever issued for
\* a row with a blank name or a rejected phone.
C18_RequestOnlyIfAccepted ==
    \A p \in 1..Len(posts) :
        /\ posts[p].index \in 0..(Len(df) - 1)
        /\ AcceptedRow(df[posts[p].index + 1])

\* the gateway answers after which the call returns status "Success"
SuccessAnswers == {"ok_id", "ok_no_messages", "ok_empty_messages"}

\* C19: each row the loop has processed incremented exactly one of the two
\* counters: at every iteration boundary success_count + failure_count is the
\* number of rows processed, success_count is the number of rows whose gateway
\* call returned Success, and when the loop completes the two counters add up
\* to the number of rows of the table.  A row whose iteration is left by an
\* exception has incremented at most one counter.
C19_CountersPartitionRows ==
    /\ success_count = Cardinality({ p \in 1..Len(posts) : posts[p].resp \in SuccessAnswers })
    /\ pc \in {"send", "done"} => success_count + failure_count = index
    /\ pc = "done" => success_count + failure_count = Len(df)
    /\ pc = "aborted" => success_count + failure_count \in {index, index + 1}

\* the loop has ended on two rows, one skipped for its phone and one sent with
\* success: each counter stands at 1
C19_Witness ==
    /\ pc = "done"
    /\ Len(df) = 2
    /\ PhoneRejected(df[1])
    /\ Len(posts) = 1
    /\ success_count = 1
    /\ failure_count = 1

====
